---- MODULE Spec2Model ----
(***************************************************************************)
(* ParserSpec (src/src/spec.rs): the write-once tables of a Pratt parser.  *)
(* A ParserSpec<T> holds two hash maps keyed by std::mem::discriminant of  *)
(* the token: null_map (prefix rules) and left_map (infix rules).          *)
(***************************************************************************)
EXTENDS Integers, Sequences, FiniteSets, TLC

\* ---------------------------------------------------------------- bounds
\* Longest token sequence handed to a batch registration.
MaxLen == 3
\* Calls made in one run, over all builders: registrations and clones.
MaxCalls == 2
\* Batch registration calls among them.
MaxBatchCalls == 1
\* Binding powers are drawn from 0..MaxPower (PrecedenceLevel is an unsigned
\* integer that the code only stores, never computes with).
MaxPower == 1
\* Registration calls made in one run of the Number / Plus / Caret grammar.
ScenarioLen == 3
\* ---------------------------------------------------------------- tokens
\* Lexical kinds of the token type T.  With T an enum these are its variants.
Kinds == {"Number", "Plus", "Caret"}

\* The data a token of a kind may carry: a Number carries a value, the
\* operators carry none.
PayloadsOf(kind) == IF kind = "Number" THEN {1, 2} ELSE {0}

Tokens == UNION {{[kind |-> k, payload |-> p] : p \in PayloadsOf(k)} : k \in Kinds}

Powers == 0..MaxPower

\* Rule functions are plain fn pointers; only their identity is stored.
NullDenotations == {"null_f", "null_g"}
LeftDenotations == {"left_f", "left_g"}

\* The token types a build may instantiate ParserSpec with: an enum, or a
\* type without discriminant (the tests use ParserSpec<String>).
TokenTypes == {"enum", "String"}

\* The two builders of a run: the one made by new() and a possible clone.
Builders == {"spec", "copy"}

\* The parser engines that share the yielded mappings, one per thread.
Engines == {"e1", "e2"}

SeqsUpTo(S, n) == UNION {[1..k -> S] : k \in 0..n}

VARIABLES
    T,          \* the token type of the build
    phase,      \* builder -> "absent" | "accumulating" | "consumed"
    null_map,   \* builder -> its null_map
    left_map,   \* builder -> its left_map
    yielded,    \* builder -> what maps() handed out
    last,       \* the latest call: its arguments and what it returned
    before,     \* the builder of the latest call, as the call found it
    registered, \* builder -> the registrations that returned Ok (history)
    calls,      \* registration and clone calls made so far
    batches,    \* batch registration calls made so far
    lookups     \* parser engine -> its latest lookup in yielded mappings

vars == <<T, phase, null_map, left_map, yielded, last, before, registered, calls,
          batches, lookups>>

\* ---------------------------------------------------------------- maps
EmptyMap == [k \in {} |-> 0]

contains_key(m, k) == k \in DOMAIN m

\* HashMap::insert: stores v under k, replacing what was there.
insert(m, k, v) == [x \in (DOMAIN m) \cup {k} |-> IF x = k THEN v ELSE m[x]]

\* Entry::or_insert: stores v under k only when the entry is vacant.
or_insert(m, k, v) == IF k \in DOMAIN m THEN m ELSE insert(m, k, v)

\* ---------------------------------------------------------------- results
NoToken == [kind |-> "none", payload |-> 0]

Ok == [tag |-> "Ok", tk |-> NoToken]

TokenToRuleAlreadyDefined(token) == [tag |-> "TokenToRuleAlreadyDefined", tk |-> token]

\* Variant: the maps are keyed by the token value itself.
token_value_key(token) == IF T = "enum" THEN <<token.kind, token.payload>> ELSE "0"

\* std::mem::discriminant(&token).  For an enum it is the variant.  For a type
\* that is no enum the value is the same for every value of the type (the
\* intrinsic yields 0 when T has no discriminant).
discriminant(token) == IF T = "enum" THEN token.kind ELSE "0"

\* ---------------------------------------------------------------- ParserSpec
new == [null_map |-> EmptyMap, left_map |-> EmptyMap]

\* Variant: the Occupied arm is missing, the entry is always written.
add_null_assoc_overwrite(self, token, bp, func) ==
    [self |-> [self EXCEPT !.null_map = insert(@, discriminant(token), <<bp, func>>)],
     result |-> Ok]

\* Variant: one key space for both tables, an infix entry blocks a prefix rule.
add_null_assoc_shared_keys(self, token, bp, func) ==
    LET disc == discriminant(token) IN
    IF contains_key(self.null_map, disc) \/ contains_key(self.left_map, disc)
    THEN [self |-> self, result |-> TokenToRuleAlreadyDefined(token)]
    ELSE [self |-> [self EXCEPT !.null_map = or_insert(@, disc, <<bp, func>>)],
          result |-> Ok]

add_null_assoc(self, token, bp, func) ==
    LET disc == discriminant(token) IN
    IF contains_key(self.null_map, disc)
    THEN [self |-> self, result |-> TokenToRuleAlreadyDefined(token)]
    ELSE [self |-> [self EXCEPT !.null_map = or_insert(@, disc, <<bp, func>>)],
          result |-> Ok]

\* Variant: the right binding power is not set from bp.
add_left_assoc_no_right(self, token, bp, func) ==
    LET disc == discriminant(token) IN
    IF ~contains_key(self.left_map, disc)
    THEN [self |-> [self EXCEPT !.left_map = insert(@, disc, <<bp, 0, func>>)],
          result |-> Ok]
    ELSE [self |-> self, result |-> TokenToRuleAlreadyDefined(token)]

\* Variant: a duplicate is a panic, not an error value.
add_left_assoc_panics(self, token, bp, func) ==
    LET disc == discriminant(token) IN
    IF ~contains_key(self.left_map, disc)
    THEN [self |-> [self EXCEPT !.left_map = insert(@, disc, <<bp, bp, func>>)],
          result |-> Ok]
    ELSE [self |-> self, result |-> [tag |-> "panic", tk |-> NoToken]]

\* Variant: the entry is replaced and the old rule reported as the error.
add_left_assoc_replaces(self, token, bp, func) ==
    LET disc == discriminant(token) IN
    [self |-> [self EXCEPT !.left_map = insert(@, disc, <<bp, bp, func>>)],
     result |-> IF contains_key(self.left_map, disc)
                THEN TokenToRuleAlreadyDefined(token) ELSE Ok]

add_left_assoc(self, token, bp, func) ==
    LET disc == discriminant(token) IN
    IF ~contains_key(self.left_map, disc)
    THEN [self |-> [self EXCEPT !.left_map = insert(@, disc, <<bp, bp, func>>)],
          result |-> Ok]
    ELSE [self |-> self, result |-> TokenToRuleAlreadyDefined(token)]

\* Variant: the contains_key test is missing, insert replaces the entry.
add_left_right_assoc_overwrite(self, token, lbp, rbp, func) ==
    [self |-> [self EXCEPT !.left_map = insert(@, discriminant(token), <<lbp, rbp, func>>)],
     result |-> Ok]

\* Variant: the error is built from the kind alone, the carried data is lost.
add_left_right_assoc_lost_payload(self, token, lbp, rbp, func) ==
    LET disc == discriminant(token) IN
    IF ~contains_key(self.left_map, disc)
    THEN [self |-> [self EXCEPT !.left_map = insert(@, disc, <<lbp, rbp, func>>)],
          result |-> Ok]
    ELSE [self |-> self,
          result |-> TokenToRuleAlreadyDefined([token EXCEPT !.payload = 0])]

\* Variant: the powers are normalised, the right one never above the left.
add_left_right_assoc_normalised(self, token, lbp, rbp, func) ==
    LET disc == discriminant(token) IN
    IF ~contains_key(self.left_map, disc)
    THEN [self |-> [self EXCEPT !.left_map =
                       insert(@, disc, <<lbp, IF rbp > lbp THEN lbp ELSE rbp, func>>)],
          result |-> Ok]
    ELSE [self |-> self, result |-> TokenToRuleAlreadyDefined(token)]

add_left_right_assoc(self, token, lbp, rbp, func) ==
    LET disc == discriminant(token) IN
    IF ~contains_key(self.left_map, disc)
    THEN [self |-> [self EXCEPT !.left_map = insert(@, disc, <<lbp, rbp, func>>)],
          result |-> Ok]
    ELSE [self |-> self, result |-> TokenToRuleAlreadyDefined(token)]

\* The batch forms: the loop over the tokens, left by `?` at the first Err.
\* `done` counts the iterations that returned Ok.
RECURSIVE null_loop(_, _, _, _, _)
null_loop(self, tokens, bp, func, done) ==
    IF tokens = <<>>
    THEN [self |-> self, result |-> Ok, done |-> done]
    ELSE LET r == add_null_assoc(self, Head(tokens), bp, func) IN
         IF r.result.tag # "Ok"
         THEN [self |-> r.self, result |-> r.result, done |-> done]
         ELSE null_loop(r.self, Tail(tokens), bp, func, done + 1)

\* Variant: all or nothing, a failed batch gives the builder back as it was.
add_null_associations_atomic(self, tokens, bp, func) ==
    LET r == null_loop(self, tokens, bp, func, 0) IN
    IF r.result.tag # "Ok" THEN [r EXCEPT !.self = self] ELSE r

add_null_associations(self, tokens, bp, func) == null_loop(self, tokens, bp, func, 0)

RECURSIVE left_loop(_, _, _, _, _)
left_loop(self, tokens, bp, func, done) ==
    IF tokens = <<>>
    THEN [self |-> self, result |-> Ok, done |-> done]
    ELSE LET r == add_left_assoc(self, Head(tokens), bp, func) IN
         IF r.result.tag # "Ok"
         THEN [self |-> r.self, result |-> r.result, done |-> done]
         ELSE left_loop(r.self, Tail(tokens), bp, func, done + 1)

\* Variant: the tokens are taken last to first.
add_left_associations_reversed(self, tokens, bp, func) ==
    left_loop(self, [i \in 1..Len(tokens) |-> tokens[Len(tokens) + 1 - i]], bp, func, 0)

add_left_associations(self, tokens, bp, func) == left_loop(self, tokens, bp, func, 0)

RECURSIVE left_right_loop(_, _, _, _, _, _)
left_right_loop(self, tokens, lbp, rbp, func, done) ==
    IF tokens = <<>>
    THEN [self |-> self, result |-> Ok, done |-> done]
    ELSE LET r == add_left_right_assoc(self, Head(tokens), lbp, rbp, func) IN
         IF r.result.tag # "Ok"
         THEN [self |-> r.self, result |-> r.result, done |-> done]
         ELSE left_right_loop(r.self, Tail(tokens), lbp, rbp, func, done + 1)

\* Variant: a category named twice in one batch is registered once.
add_left_right_associations_dedup(self, tokens, lbp, rbp, func) ==
    LET keep == {i \in 1..Len(tokens) :
                    \A j \in 1..(i - 1) :
                       discriminant(tokens[j]) # discriminant(tokens[i])}
        firsts == [n \in 1..Cardinality(keep) |->
                      tokens[CHOOSE i \in keep : Cardinality({j \in keep : j <= i}) = n]]
    IN  left_right_loop(self, firsts, lbp, rbp, func, 0)

add_left_right_associations(self, tokens, lbp, rbp, func) ==
    left_right_loop(self, tokens, lbp, rbp, func, 0)

\* Variant: the two maps are handed out in the other order.
maps_swapped(self) == [null_map |-> self.left_map, left_map |-> self.null_map]

\* Variant: only the prefix table is handed out.
maps_without_left(self) == [null_map |-> self.null_map, left_map |-> EmptyMap]

\* maps(self): the two maps, moved out of the builder.
maps(self) == [null_map |-> self.null_map, left_map |-> self.left_map]

\* ---------------------------------------------------------------- state
NotYielded == [given |-> FALSE, null_map |-> EmptyMap, left_map |-> EmptyMap]

NoLookup == [b |-> "spec", ns |-> "none", token |-> NoToken, found |-> FALSE,
             entry |-> <<>>]

NoCall == [op |-> "new", b |-> "spec", tokens |-> <<>>, bp |-> 0, rbp |-> 0,
           func |-> "none", result |-> Ok, done |-> 0]

Self(b) == [null_map |-> null_map[b], left_map |-> left_map[b]]

\* The history entries of the tokens 1..n of a call.
Logged(op, ns, tokens, n, bp, rbp, func) ==
    {[op |-> op, ns |-> ns, tok |-> tokens[i], bp |-> bp, rbp |-> rbp, func |-> func] :
        i \in 1..n}

Init ==
    /\ T \in TokenTypes
    /\ phase = [b \in Builders |-> IF b = "spec" THEN "accumulating" ELSE "absent"]
    /\ null_map = [b \in Builders |-> new.null_map]
    /\ left_map = [b \in Builders |-> new.left_map]
    /\ yielded = [b \in Builders |-> NotYielded]
    /\ last = NoCall
    /\ before = new
    /\ registered = [b \in Builders |-> {}]
    /\ calls = 0
    /\ batches = 0
    /\ lookups = [e \in Engines |-> NoLookup]

\* What every registration call does with the outcome r of its function.
Returns(b, op, ns, tokens, bp, rbp, func, r, done) ==
    /\ null_map' = [null_map EXCEPT ![b] = r.self.null_map]
    /\ left_map' = [left_map EXCEPT ![b] = r.self.left_map]
    /\ last' = [op |-> op, b |-> b, tokens |-> tokens, bp |-> bp, rbp |-> rbp,
                func |-> func, result |-> r.result, done |-> done]
    /\ before' = Self(b)
    /\ registered' = [registered EXCEPT
                        ![b] = @ \cup Logged(op, ns, tokens, done, bp, rbp, func)]
    /\ calls' = calls + 1
    /\ UNCHANGED <<T, phase, yielded, lookups>>

OkCount(r) == IF r.result.tag = "Ok" THEN 1 ELSE 0

AddNullAssoc(b) ==
    /\ phase[b] = "accumulating"
    /\ calls < MaxCalls
    /\ \E token \in Tokens, bp \in Powers, func \in NullDenotations :
         LET r == add_null_assoc(Self(b), token, bp, func) IN
         Returns(b, "add_null_assoc", "null", <<token>>, bp, bp, func, r, OkCount(r))
    /\ UNCHANGED batches

AddLeftAssoc(b) ==
    /\ phase[b] = "accumulating"
    /\ calls < MaxCalls
    /\ \E token \in Tokens, bp \in Powers, func \in LeftDenotations :
         LET r == add_left_assoc(Self(b), token, bp, func) IN
         Returns(b, "add_left_assoc", "left", <<token>>, bp, bp, func, r, OkCount(r))
    /\ UNCHANGED batches

AddLeftRightAssoc(b) ==
    /\ phase[b] = "accumulating"
    /\ calls < MaxCalls
    /\ \E token \in Tokens, lbp \in Powers, rbp \in Powers, func \in LeftDenotations :
         LET r == add_left_right_assoc(Self(b), token, lbp, rbp, func) IN
         Returns(b, "add_left_right_assoc", "left", <<token>>, lbp, rbp, func, r, OkCount(r))
    /\ UNCHANGED batches

AddNullAssociations(b) ==
    /\ phase[b] = "accumulating"
    /\ calls < MaxCalls
    /\ batches < MaxBatchCalls
    /\ \E tokens \in SeqsUpTo(Tokens, MaxLen), bp \in Powers, func \in NullDenotations :
         LET r == add_null_associations(Self(b), tokens, bp, func) IN
         Returns(b, "add_null_associations", "null", tokens, bp, bp, func, r, r.done)
    /\ batches' = batches + 1

AddLeftAssociations(b) ==
    /\ phase[b] = "accumulating"
    /\ calls < MaxCalls
    /\ batches < MaxBatchCalls
    /\ \E tokens \in SeqsUpTo(Tokens, MaxLen), bp \in Powers, func \in LeftDenotations :
         LET r == add_left_associations(Self(b), tokens, bp, func) IN
         Returns(b, "add_left_associations", "left", tokens, bp, bp, func, r, r.done)
    /\ batches' = batches + 1

AddLeftRightAssociations(b) ==
    /\ phase[b] = "accumulating"
    /\ calls < MaxCalls
    /\ batches < MaxBatchCalls
    /\ \E tokens \in SeqsUpTo(Tokens, MaxLen), lbp \in Powers, rbp \in Powers,
          func \in LeftDenotations :
         LET r == add_left_right_associations(Self(b), tokens, lbp, rbp, func) IN
         Returns(b, "add_left_right_associations", "left", tokens, lbp, rbp, func, r, r.done)
    /\ batches' = batches + 1

\* Variant: maps(&self) hands out copies and leaves the builder in use.
MapsByRef(b) ==
    /\ phase[b] = "accumulating"
    /\ LET m == maps(Self(b)) IN
         yielded' = [yielded EXCEPT ![b] =
                        [given |-> TRUE, null_map |-> m.null_map, left_map |-> m.left_map]]
    /\ last' = [NoCall EXCEPT !.op = "maps", !.b = b]
    /\ before' = Self(b)
    /\ UNCHANGED <<T, phase, null_map, left_map, registered, calls, batches, lookups>>

\* maps(self) takes the builder by value: the builder is gone afterwards.
Maps(b) ==
    /\ phase[b] = "accumulating"
    /\ LET m == maps(Self(b)) IN
         yielded' = [yielded EXCEPT ![b] =
                        [given |-> TRUE, null_map |-> m.null_map, left_map |-> m.left_map]]
    /\ phase' = [phase EXCEPT ![b] = "consumed"]
    /\ null_map' = [null_map EXCEPT ![b] = EmptyMap]
    /\ left_map' = [left_map EXCEPT ![b] = EmptyMap]
    /\ last' = [NoCall EXCEPT !.op = "maps", !.b = b]
    /\ before' = Self(b)
    /\ UNCHANGED <<T, registered, calls, batches, lookups>>

\* #[derive(Clone)]: b.clone() is a second builder with copies of both maps.
Clone(b, c) ==
    /\ phase[b] = "accumulating"
    /\ phase[c] = "absent"
    /\ calls < MaxCalls
    /\ phase' = [phase EXCEPT ![c] = "accumulating"]
    /\ null_map' = [null_map EXCEPT ![c] = null_map[b]]
    /\ left_map' = [left_map EXCEPT ![c] = left_map[b]]
    /\ registered' = [registered EXCEPT ![c] = registered[b]]
    /\ last' = [NoCall EXCEPT !.op = "clone", !.b = b]
    /\ before' = Self(b)
    /\ calls' = calls + 1
    /\ UNCHANGED <<T, yielded, batches, lookups>>

\* The single registrations, maps() and clone().
Next ==
    \/ \E b \in Builders : AddNullAssoc(b)
    \/ \E b \in Builders : AddLeftAssoc(b)
    \/ \E b \in Builders : AddLeftRightAssoc(b)
    \/ \E b \in Builders : Maps(b)
    \/ \E b \in Builders, c \in Builders : Clone(b, c)

Spec == Init /\ [][Next]_vars

\* All operations of ParserSpec: the above and the batch registrations.
NextBatch ==
    \/ \E b \in Builders : AddNullAssoc(b)
    \/ \E b \in Builders : AddLeftAssoc(b)
    \/ \E b \in Builders : AddLeftRightAssoc(b)
    \/ \E b \in Builders : AddNullAssociations(b)
    \/ \E b \in Builders : AddLeftAssociations(b)
    \/ \E b \in Builders : AddLeftRightAssociations(b)
    \/ \E b \in Builders : Maps(b)
    \/ \E b \in Builders, c \in Builders : Clone(b, c)

SpecBatch == Init /\ [][NextBatch]_vars

\* ---------------------------------------------------------------- engines
\* The parser engine is not part of spec.rs. It queries the two yielded
\* mappings once per token, read-only, by the category of the token.
get(map, token) ==
    LET disc == discriminant(token) IN
    IF contains_key(map, disc)
    THEN [found |-> TRUE, entry |-> map[disc]]
    ELSE [found |-> FALSE, entry |-> <<>>]

\* One lookup of engine e in the mappings that maps() yielded from b. The
\* engines run in parallel; a lookup reads and writes nothing shared.
Lookup(e, b) ==
    /\ yielded[b].given
    /\ \E ns \in {"null", "left"}, token \in Tokens :
         LET r == get(IF ns = "null" THEN yielded[b].null_map ELSE yielded[b].left_map,
                      token)
         IN  lookups' = [lookups EXCEPT ![e] =
                            [b |-> b, ns |-> ns, token |-> token, found |-> r.found,
                             entry |-> r.entry]]
    /\ UNCHANGED <<T, phase, null_map, left_map, yielded, last, before, registered,
                   calls, batches>>

\* One author registers and calls maps(); the engines then look up, in any
\* interleaving.
NextEngines ==
    \/ AddNullAssoc("spec")
    \/ AddLeftAssoc("spec")
    \/ AddLeftRightAssoc("spec")
    \/ Maps("spec")
    \/ \E e \in Engines : Lookup(e, "spec")

SpecEngines == Init /\ [][NextEngines]_vars

\* ---------------------------------------------------------------- a grammar
\* The grammar of a calculator: a prefix rule for Number with power 0, an
\* infix rule for Plus with powers (10, 10) and one for Caret with (20, 19).
\* Each rule is registered once, in any order, then maps() is called.
ScenarioInfix == {[kind |-> "Plus", lbp |-> 10, rbp |-> 10],
                  [kind |-> "Caret", lbp |-> 20, rbp |-> 19]}

\* A rule for this kind is already in the namespace ns of builder b.
Has(b, ns, kind) == \E rec \in registered[b] : rec.ns = ns /\ rec.tok.kind = kind

ScenarioAddNullAssoc(b) ==
    /\ phase[b] = "accumulating"
    /\ calls < ScenarioLen
    /\ ~Has(b, "null", "Number")
    /\ \E p \in PayloadsOf("Number"), func \in NullDenotations :
         LET token == [kind |-> "Number", payload |-> p]
             r == add_null_assoc(Self(b), token, 0, func)
         IN  Returns(b, "add_null_assoc", "null", <<token>>, 0, 0, func, r, OkCount(r))
    /\ UNCHANGED batches

ScenarioAddLeftAssoc(b) ==
    /\ phase[b] = "accumulating"
    /\ calls < ScenarioLen
    /\ ~Has(b, "left", "Plus")
    /\ \E func \in LeftDenotations :
         LET token == [kind |-> "Plus", payload |-> 0]
             r == add_left_assoc(Self(b), token, 10, func)
         IN  Returns(b, "add_left_assoc", "left", <<token>>, 10, 10, func, r, OkCount(r))
    /\ UNCHANGED batches

ScenarioAddLeftRightAssoc(b) ==
    /\ phase[b] = "accumulating"
    /\ calls < ScenarioLen
    /\ \E rule \in ScenarioInfix, func \in LeftDenotations :
         /\ ~Has(b, "left", rule.kind)
         /\ LET token == [kind |-> rule.kind, payload |-> 0]
                 r == add_left_right_assoc(Self(b), token, rule.lbp, rule.rbp, func)
            IN  Returns(b, "add_left_right_assoc", "left", <<token>>, rule.lbp, rule.rbp,
                        func, r, OkCount(r))
    /\ UNCHANGED batches

NextScenario ==
    \/ \E b \in Builders : ScenarioAddNullAssoc(b)
    \/ \E b \in Builders : ScenarioAddLeftAssoc(b)
    \/ \E b \in Builders : ScenarioAddLeftRightAssoc(b)
    \/ \E b \in Builders : Maps(b)

SpecScenario == Init /\ [][NextScenario]_vars

\* ---------------------------------------------------------------- properties
SingleOps == {"add_null_assoc", "add_left_assoc", "add_left_right_assoc"}
BatchOps == {"add_null_associations", "add_left_associations",
             "add_left_right_associations"}
NullOps == {"add_null_assoc", "add_null_associations"}
LeftOps == {"add_left_assoc", "add_left_right_assoc", "add_left_associations",
            "add_left_right_associations"}

\* The table of the latest call's namespace before and after the call, the
\* other table before and after, and the entry the call was asked to store.
Pre == IF last.op \in NullOps THEN before.null_map ELSE before.left_map
Post == IF last.op \in NullOps THEN null_map[last.b] ELSE left_map[last.b]
OtherPre == IF last.op \in NullOps THEN before.left_map ELSE before.null_map
OtherPost == IF last.op \in NullOps THEN left_map[last.b] ELSE null_map[last.b]
Given == IF last.op \in NullOps THEN <<last.bp, last.func>>
                                ELSE <<last.bp, last.rbp, last.func>>
NameSpace == IF last.op \in NullOps THEN "null" ELSE "left"

\* m is m0 with v stored under the new key k and nothing else touched.
Extends(m, m0, k, v) ==
    /\ k \notin DOMAIN m0
    /\ DOMAIN m = (DOMAIN m0) \cup {k}
    /\ m[k] = v
    /\ \A x \in DOMAIN m0 : m[x] = m0[x]

\* C1: add_null_assoc on a category without prefix entry returns Ok and stores
\* (bp, func) under it; on a category that has one it returns
\* TokenToRuleAlreadyDefined and leaves null_map and left_map as they were.
C1_PrefixWriteOnce ==
    last.op = "add_null_assoc" =>
        LET token == last.tokens[1]
            c == discriminant(token)
        IN  /\ left_map[last.b] = before.left_map
            /\ IF c \in DOMAIN before.null_map
               THEN /\ last.result = TokenToRuleAlreadyDefined(token)
                    /\ null_map[last.b] = before.null_map
               ELSE /\ last.result = Ok
                    /\ Extends(null_map[last.b], before.null_map, c,
                               <<last.bp, last.func>>)

\* A second add_null_assoc for a category was refused, and the entry still
\* holds a rule other than the one the refused call brought.
C1_Witness ==
    /\ last.op = "add_null_assoc"
    /\ last.result.tag = "TokenToRuleAlreadyDefined"
    /\ T = "enum"
    /\ null_map[last.b][discriminant(last.tokens[1])] # <<last.bp, last.func>>

\* C2: add_left_assoc and add_left_right_assoc share one write-once table: the
\* first registration of a category through either stores (left power, right
\* power, func), a later one through either is refused and changes nothing.
C2_InfixWriteOnce ==
    last.op \in {"add_left_assoc", "add_left_right_assoc"} =>
        LET token == last.tokens[1]
            c == discriminant(token)
        IN  /\ null_map[last.b] = before.null_map
            /\ IF c \in DOMAIN before.left_map
               THEN /\ last.result = TokenToRuleAlreadyDefined(token)
                    /\ left_map[last.b] = before.left_map
               ELSE /\ last.result = Ok
                    /\ Extends(left_map[last.b], before.left_map, c,
                               <<last.bp, last.rbp, last.func>>)

\* add_left_right_assoc with two different powers was refused for a category
\* that add_left_assoc had registered.
C2_Witness ==
    /\ last.op = "add_left_right_assoc"
    /\ last.result.tag = "TokenToRuleAlreadyDefined"
    /\ last.bp # last.rbp
    /\ T = "enum"
    /\ \E rec \in registered[last.b] :
          /\ rec.op = "add_left_assoc"
          /\ rec.tok.kind = last.tokens[1].kind
          /\ left_map[last.b][discriminant(last.tokens[1])] = <<rec.bp, rec.bp, rec.func>>

\* C3: the two tables are independent namespaces: a prefix registration never
\* touches left_map and its outcome depends on null_map alone, an infix
\* registration never touches null_map and its outcome depends on left_map
\* alone.
C3_NamespacesIndependent ==
    last.op \in SingleOps =>
        LET c == discriminant(last.tokens[1]) IN
        /\ OtherPost = OtherPre
        /\ (last.result = Ok) <=> (c \notin DOMAIN Pre)

\* A prefix rule was registered for a category that already had an infix rule.
C3_Witness ==
    /\ last.op = "add_null_assoc"
    /\ last.result = Ok
    /\ discriminant(last.tokens[1]) \in DOMAIN before.left_map
    /\ discriminant(last.tokens[1]) \in DOMAIN null_map[last.b]

\* C4: the key of a token depends on its kind only: a registration with a
\* token whose kind was registered in the same namespace with other carried
\* data is refused as a duplicate and leaves the table as it was.
C4_PayloadIgnored ==
    /\ \A t1 \in Tokens, t2 \in Tokens :
          t1.kind = t2.kind => discriminant(t1) = discriminant(t2)
    /\ last.op \in SingleOps =>
          \A rec \in registered[last.b] :
             (/\ rec.ns = NameSpace
              /\ rec.tok.kind = last.tokens[1].kind
              /\ rec.tok.payload # last.tokens[1].payload)
             => /\ last.result = TokenToRuleAlreadyDefined(last.tokens[1])
                /\ Post = Pre
                /\ Cardinality({k \in DOMAIN Post : k = discriminant(rec.tok)}) = 1

\* Number(y) was refused in a namespace where Number(x) is registered, x # y.
C4_Witness ==
    /\ last.op \in SingleOps
    /\ last.result.tag = "TokenToRuleAlreadyDefined"
    /\ T = "enum"
    /\ \E rec \in registered[last.b] :
          /\ rec.ns = NameSpace
          /\ rec.tok.kind = last.tokens[1].kind
          /\ rec.tok.payload # last.tokens[1].payload

\* C5: two tokens of different kinds never collide: a single registration is
\* refused only if a token of the same kind was registered in that namespace.
C5_DifferentKindsNeverCollide ==
    (last.op \in SingleOps /\ last.result.tag = "TokenToRuleAlreadyDefined") =>
        \E rec \in registered[last.b] :
            rec.ns = NameSpace /\ rec.tok.kind = last.tokens[1].kind

\* C6: add_left_assoc(tok, p, f) and add_left_right_assoc(tok, p, p, f) give the
\* same result and the same two maps from the same builder state, the entry
\* stored being (p, p, f).
C6_LeftAssocIsLeftRightWithEqualPowers ==
    /\ last.op = "add_left_assoc" =>
          LET r == add_left_right_assoc(before, last.tokens[1], last.bp, last.bp,
                                        last.func)
          IN  /\ last.result = r.result
              /\ Self(last.b) = r.self
              /\ last.result = Ok =>
                    left_map[last.b][discriminant(last.tokens[1])] =
                       <<last.bp, last.bp, last.func>>
    /\ (last.op = "add_left_right_assoc" /\ last.bp = last.rbp) =>
          LET r == add_left_assoc(before, last.tokens[1], last.bp, last.func)
          IN  /\ last.result = r.result
              /\ Self(last.b) = r.self

\* add_left_assoc has stored an entry with a power other than 0.
C6_Witness ==
    /\ last.op = "add_left_assoc"
    /\ last.result = Ok
    /\ last.bp > 0
    /\ left_map[last.b][discriminant(last.tokens[1])] = <<last.bp, last.bp, last.func>>

\* The positions of a token sequence whose category has an entry when the
\* loop reaches them: one that was in m, or one an earlier position stored.
Colliding(m, ts) ==
    {i \in 1..Len(ts) :
        \/ discriminant(ts[i]) \in DOMAIN m
        \/ \E j \in 1..(i - 1) : discriminant(ts[j]) = discriminant(ts[i])}

FirstColliding(m, ts) ==
    CHOOSE i \in Colliding(m, ts) : \A j \in Colliding(m, ts) : i <= j

\* C7: a batch registration that meets a category which already has an entry
\* returns the error for that token, keeps the entries of the tokens before it
\* with the given powers and function, stores nothing for the tokens after it
\* and leaves every earlier entry as it was.
C7_BatchPartiallyApplied ==
    (last.op \in BatchOps /\ Colliding(Pre, last.tokens) # {}) =>
        LET i == FirstColliding(Pre, last.tokens)
            stored == {discriminant(last.tokens[j]) : j \in 1..(i - 1)}
        IN  /\ last.result = TokenToRuleAlreadyDefined(last.tokens[i])
            /\ DOMAIN Post = (DOMAIN Pre) \cup stored
            /\ \A k \in stored : Post[k] = Given
            /\ \A k \in DOMAIN Pre : Post[k] = Pre[k]
            /\ OtherPost = OtherPre

\* A batch [a, b, c]: a was stored, b met an entry made by an earlier call with
\* another rule, c has no entry.
C7_Witness ==
    /\ last.op \in BatchOps
    /\ last.result.tag = "TokenToRuleAlreadyDefined"
    /\ Len(last.tokens) = 3
    /\ last.done = 1
    /\ discriminant(last.tokens[1]) \in DOMAIN Post
    /\ discriminant(last.tokens[1]) \notin DOMAIN Pre
    /\ discriminant(last.tokens[2]) \in DOMAIN Pre
    /\ Post[discriminant(last.tokens[2])] # Given
    /\ discriminant(last.tokens[3]) \notin DOMAIN Post

\* The entries of log in namespace ns, as a map must hold them.
Holds(m, log, ns) ==
    /\ DOMAIN m = {discriminant(rec.tok) : rec \in {x \in log : x.ns = ns}}
    /\ \A rec \in log : rec.ns = ns =>
          m[discriminant(rec.tok)] =
             IF ns = "null" THEN <<rec.bp, rec.func>> ELSE <<rec.bp, rec.rbp, rec.func>>

\* C8: the mappings maps() yields hold an entry for a category exactly if a
\* registration for it returned Ok, with that registration's powers and
\* function; a builder nothing was registered on yields two empty mappings.
C8_MapsYieldsWhatWasRegistered ==
    \A b \in Builders : yielded[b].given =>
        /\ Holds(yielded[b].null_map, registered[b], "null")
        /\ Holds(yielded[b].left_map, registered[b], "left")

\* maps() has yielded a prefix and an infix entry.
C8_Witness ==
    \E b \in Builders :
        /\ yielded[b].given
        /\ yielded[b].null_map # EmptyMap
        /\ yielded[b].left_map # EmptyMap

\* C9: the error of a refused registration carries the token of the refused
\* call, and the error of a batch carries the token at the first colliding
\* position.
C9_ErrorCarriesToken ==
    /\ (last.op \in SingleOps /\ last.result.tag # "Ok") =>
          last.result = TokenToRuleAlreadyDefined(last.tokens[1])
    /\ (last.op \in BatchOps /\ last.result.tag # "Ok") =>
          /\ Colliding(Pre, last.tokens) # {}
          /\ last.result =
                TokenToRuleAlreadyDefined(last.tokens[FirstColliding(Pre, last.tokens)])

\* Number(y) was refused in the infix namespace and the error carries y, where
\* the entry was registered with Number(x), x # y.
C9_Witness ==
    /\ last.op = "add_left_right_assoc"
    /\ last.result.tag = "TokenToRuleAlreadyDefined"
    /\ last.result.tk = last.tokens[1]
    /\ \E rec \in registered[last.b] :
          /\ rec.ns = "left"
          /\ rec.tok.kind = last.tokens[1].kind
          /\ rec.tok.payload # last.result.tk.payload

RegistrationOps == SingleOps \cup BatchOps

\* C10: a builder is accumulating or consumed: only maps() hands out tables,
\* a builder is consumed by it, a consumed builder stays consumed and takes no
\* call, and what maps() yielded never changes.
C10_Step ==
    \A b \in Builders :
        /\ yielded'[b] # yielded[b] =>
              /\ last'.op = "maps" /\ last'.b = b
              /\ phase[b] = "accumulating"
              /\ ~yielded[b].given
        /\ yielded'[b].given => phase'[b] = "consumed"
        /\ phase[b] = "consumed" =>
              /\ phase'[b] = "consumed"
              /\ yielded'[b] = yielded[b] /\ yielded[b].given
              /\ ~(last'.b = b /\ calls' # calls)
              /\ ~(last'.b = b /\ last'.op = "maps")

C10_TwoPhases == [][C10_Step]_vars

\* The builder made by new() is consumed and its clone has taken a
\* registration since.
C10_Witness ==
    /\ phase["spec"] = "consumed"
    /\ yielded["spec"].given
    /\ phase["copy"] = "accumulating"
    /\ last.b = "copy"
    /\ last.op \in RegistrationOps
    /\ last.result = Ok

\* The kinds with a successful registration in namespace ns of builder b.
KindsRegistered(b, ns) == {rec.tok.kind : rec \in {x \in registered[b] : x.ns = ns}}

\* The powers of an entry, without its function.
PowersOf(entry) == IF Len(entry) = 2 THEN <<entry[1]>> ELSE <<entry[1], entry[2]>>

\* C11: on a fresh builder the three registrations of the Number / Plus / Caret
\* grammar all succeed, and maps() then yields a prefix mapping of size 1 keyed
\* by Number with power 0 and an infix mapping of size 2 keyed by Plus and Caret
\* with the powers (10, 10) and (20, 19); the size of each mapping is the number
\* of distinct categories registered in its namespace.
C11_Scenario ==
    /\ last.op \in SingleOps => last.result = Ok
    /\ \A b \in Builders :
          (yielded[b].given /\ calls = ScenarioLen) =>
              LET number == discriminant([kind |-> "Number", payload |-> 1])
                  plus == discriminant([kind |-> "Plus", payload |-> 0])
                  caret == discriminant([kind |-> "Caret", payload |-> 0])
              IN  /\ DOMAIN yielded[b].null_map = {number}
                  /\ Cardinality(DOMAIN yielded[b].null_map) = 1
                  /\ PowersOf(yielded[b].null_map[number]) = <<0>>
                  /\ DOMAIN yielded[b].left_map = {plus, caret}
                  /\ Cardinality(DOMAIN yielded[b].left_map) = 2
                  /\ PowersOf(yielded[b].left_map[plus]) = <<10, 10>>
                  /\ PowersOf(yielded[b].left_map[caret]) = <<20, 19>>
    /\ \A b \in Builders :
          yielded[b].given =>
              /\ Cardinality(DOMAIN yielded[b].null_map)
                    = Cardinality(KindsRegistered(b, "null"))
              /\ Cardinality(DOMAIN yielded[b].left_map)
                    = Cardinality(KindsRegistered(b, "left"))

\* The three rules are registered and maps() has yielded them.
C11_ScenarioDone ==
    /\ yielded["spec"].given
    /\ calls = ScenarioLen
    /\ Cardinality(DOMAIN yielded["spec"].left_map) = 2

\* C12: every registration returns Ok(()) or Err(TokenToRuleAlreadyDefined)
\* with one of its tokens; there is no other outcome, and the builder is in
\* use afterwards as before.
C12_FailureIsAValue ==
    last.op \in RegistrationOps =>
        /\ \/ last.result = Ok
           \/ \E i \in 1..Len(last.tokens) :
                 last.result = TokenToRuleAlreadyDefined(last.tokens[i])
        /\ last.done \in 0..Len(last.tokens)
        /\ last.result = Ok => last.done = Len(last.tokens)
        /\ phase[last.b] = "accumulating"

\* A batch registration has stored two rules and returned an error for the
\* third token.
C12_Witness ==
    /\ last.op = "add_left_associations"
    /\ last.result.tag = "TokenToRuleAlreadyDefined"
    /\ last.done = 2
    /\ phase[last.b] = "accumulating"

\* The rule a registration stored.
RuleOf(rec) ==
    IF rec.ns = "null" THEN <<rec.bp, rec.func>> ELSE <<rec.bp, rec.rbp, rec.func>>

\* The registrations of builder b that returned Ok for the category of token
\* in namespace ns.
RegisteredFor(b, ns, token) ==
    {rec \in registered[b] : rec.ns = ns /\ discriminant(rec.tok) = discriminant(token)}

\* C13: in every interleaving of the engines' lookups in the yielded
\* mappings, a lookup of a category finds an entry exactly if one was
\* registered for it, the entry is the registered one, and two engines that
\* looked up the same category of the same mapping got the same answer,
\* whenever they looked.
C13_LookupsAgree ==
    /\ \A e \in Engines :
          lookups[e].ns # "none" =>
             LET l == lookups[e]
                 recs == RegisteredFor(l.b, l.ns, l.token)
             IN  /\ l.found <=> recs # {}
                 /\ \A rec \in recs : l.entry = RuleOf(rec)
    /\ \A e1 \in Engines, e2 \in Engines :
          ( /\ lookups[e1].ns # "none"
            /\ lookups[e1].b = lookups[e2].b
            /\ lookups[e1].ns = lookups[e2].ns
            /\ discriminant(lookups[e1].token) = discriminant(lookups[e2].token) )
          => ( /\ lookups[e1].found = lookups[e2].found
               /\ lookups[e1].entry = lookups[e2].entry )

\* Two engines have looked up the same registered infix category with
\* different tokens and both found the rule.
C13_Witness ==
    /\ lookups["e1"].ns = "left"
    /\ lookups["e2"].ns = "left"
    /\ lookups["e1"].token # lookups["e2"].token
    /\ lookups["e1"].token.kind = lookups["e2"].token.kind
    /\ lookups["e1"].found
    /\ lookups["e2"].found
    /\ lookups["e1"].entry = lookups["e2"].entry

\* The single registration a batch operation calls for each token.
SingleOf(self, token) ==
    CASE last.op = "add_null_associations" ->
            add_null_assoc(self, token, last.bp, last.func)
      [] last.op = "add_left_associations" ->
            add_left_assoc(self, token, last.bp, last.func)
      [] OTHER ->
            add_left_right_assoc(self, token, last.bp, last.rbp, last.func)

\* The first k tokens of the latest call registered one by one, starting from
\* the builder as the call found it and stopping at the first Err.
RECURSIVE OneByOne(_)
OneByOne(k) ==
    IF k = 0
    THEN [self |-> before, result |-> Ok]
    ELSE LET p == OneByOne(k - 1) IN
         IF p.result # Ok THEN p ELSE SingleOf(p.self, last.tokens[k])

\* C14: a batch registration gives the result and the maps of its single
\* registration called on the tokens one by one up to the first Err; without
\* a collision it returns Ok with every token's category registered, and on
\* an empty sequence it returns Ok and changes nothing.
C14_BatchIsOneByOne ==
    last.op \in BatchOps =>
        LET r == OneByOne(Len(last.tokens)) IN
        /\ last.result = r.result
        /\ Self(last.b) = r.self
        /\ Colliding(Pre, last.tokens) = {} =>
              /\ last.result = Ok
              /\ DOMAIN Post = (DOMAIN Pre) \cup
                                  {discriminant(last.tokens[i]) : i \in 1..Len(last.tokens)}
              /\ \A i \in 1..Len(last.tokens) : Post[discriminant(last.tokens[i])] = Given
        /\ last.tokens = <<>> => (last.result = Ok /\ Self(last.b) = before)

\* A batch of three tokens has registered three categories.
C14_Witness ==
    /\ last.op \in BatchOps
    /\ last.result = Ok
    /\ Len(last.tokens) = 3
    /\ Cardinality(DOMAIN Post) = Cardinality(DOMAIN Pre) + 3

\* The two tables of a builder: in the builder until maps(), then as yielded.
Table(b) ==
    IF yielded[b].given
    THEN [null_map |-> yielded[b].null_map, left_map |-> yielded[b].left_map]
    ELSE Self(b)

TableAfter(b) ==
    IF yielded'[b].given
    THEN [null_map |-> yielded'[b].null_map, left_map |-> yielded'[b].left_map]
    ELSE [null_map |-> null_map'[b], left_map |-> left_map'[b]]

\* C15: no step removes a key from a table of a builder or changes the entry
\* stored under a key.
C15_Step ==
    \A b \in Builders :
        /\ \A k \in DOMAIN Table(b).null_map :
              /\ k \in DOMAIN TableAfter(b).null_map
              /\ TableAfter(b).null_map[k] = Table(b).null_map[k]
        /\ \A k \in DOMAIN Table(b).left_map :
              /\ k \in DOMAIN TableAfter(b).left_map
              /\ TableAfter(b).left_map[k] = Table(b).left_map[k]

C15_OnlyFirstRecorded == [][C15_Step]_vars

\* A registration with another rule was refused for a category that has an
\* entry, and the entry is the one of the earlier registration.
C15_Witness ==
    /\ last.op \in RegistrationOps
    /\ last.result.tag = "TokenToRuleAlreadyDefined"
    /\ Post[discriminant(last.result.tk)] # Given
    /\ \E rec \in registered[last.b] :
          /\ rec.ns = NameSpace
          /\ discriminant(rec.tok) = discriminant(last.result.tk)
          /\ Post[discriminant(rec.tok)] =
                IF rec.ns = "null" THEN <<rec.bp, rec.func>>
                                   ELSE <<rec.bp, rec.rbp, rec.func>>

\* C16: a batch that names a category twice, where the table had no entry for
\* it, returns the error with the second occurrence, keeps the entry of the
\* first occurrence and of every token before the second, and registers
\* nothing that comes after the second.
C16_DuplicateInsideBatch ==
    (last.op \in BatchOps /\ Colliding(Pre, last.tokens) # {}) =>
        LET j == FirstColliding(Pre, last.tokens)
            c == discriminant(last.tokens[j])
        IN  c \notin DOMAIN Pre =>
              /\ \E i \in 1..(j - 1) : discriminant(last.tokens[i]) = c
              /\ last.result = TokenToRuleAlreadyDefined(last.tokens[j])
              /\ last.done = j - 1
              /\ c \in DOMAIN Post /\ Post[c] = Given
              /\ \A i \in 1..(j - 1) :
                    /\ discriminant(last.tokens[i]) \in DOMAIN Post
                    /\ Post[discriminant(last.tokens[i])] = Given
              /\ \A i \in (j + 1)..Len(last.tokens) :
                    discriminant(last.tokens[i]) \in DOMAIN Post =>
                       \/ discriminant(last.tokens[i]) \in DOMAIN Pre
                       \/ \E m \in 1..(j - 1) :
                             discriminant(last.tokens[m]) = discriminant(last.tokens[i])

\* A batch [Number(x), Number(y), t] on a table without Number: the error
\* carries Number(y), Number is registered, the kind of t is not.
C16_Witness ==
    /\ last.op \in BatchOps
    /\ Len(last.tokens) = 3
    /\ last.tokens[1].kind = last.tokens[2].kind
    /\ last.tokens[1] # last.tokens[2]
    /\ discriminant(last.tokens[1]) \notin DOMAIN Pre
    /\ last.result = TokenToRuleAlreadyDefined(last.tokens[2])
    /\ discriminant(last.tokens[1]) \in DOMAIN Post
    /\ discriminant(last.tokens[3]) \notin DOMAIN Post

\* A builder with the key sets of self and one fixed rule under every key.
SameKeys(self) ==
    [null_map |-> [k \in DOMAIN self.null_map |-> <<0, "null_f">>],
     left_map |-> [k \in DOMAIN self.left_map |-> <<0, 0, "left_f">>]]

\* C17: whether a registration returns Ok or Err depends on the key set of
\* its namespace and the token's category only, not on the rules stored, the
\* powers, the function or the carried data; the powers are stored as given,
\* whatever their order or value.
C17_OutcomeDependsOnKeysOnly ==
    last.op \in SingleOps =>
        LET token == last.tokens[1] IN
        /\ (last.result = Ok) <=> (discriminant(token) \notin DOMAIN Pre)
        /\ last.result = Ok => Post[discriminant(token)] = Given
        /\ \A t2 \in {t \in Tokens : t.kind = token.kind}, p \in Powers :
              LET other == SameKeys(before)
                  r == CASE last.op = "add_null_assoc" ->
                               add_null_assoc(other, t2, p, "null_g")
                         [] last.op = "add_left_assoc" ->
                               add_left_assoc(other, t2, p, "left_g")
                         [] OTHER ->
                               add_left_right_assoc(other, t2, p, MaxPower - p, "left_g")
              IN  r.result.tag = last.result.tag

\* add_left_right_assoc has stored a right power above the left power 0.
C17_Witness ==
    /\ last.op = "add_left_right_assoc"
    /\ last.result = Ok
    /\ last.bp = 0
    /\ last.rbp > last.bp
    /\ left_map[last.b][discriminant(last.tokens[1])] = <<0, last.rbp, last.func>>

====
